---- MODULE Spec2Model ----
(***************************************************************************)
(* The fetch-recipe edge function (supabase/functions/fetch-recipe) with   *)
(* the two tables it writes (recipe_cache, recipes).  Several invocations  *)
(* of the handler run concurrently; each is cut at its awaits.  The        *)
(* ingredient scan of fetchFromTheMealDB and the two client components     *)
(* (RecipeIngredients, UserFavorites) have a specification each.           *)
(***************************************************************************)
EXTENDS Integers, Sequences, FiniteSets, TLC

\* ------------------------------------------------------------------ bounds

\* Invocations of the function over one behaviour.
MaxRequests == 2

\* The clock stops here (hours).
MaxTime == 24

\* expiresAt.setHours(expiresAt.getHours() + 24)
TtlHours == 24

\* for (let i = 1; i <= 20; i++)
MaxIngredients == 20

\* Calls of getIngredients that reach the function, over one behaviour.
MaxLookups == 3

\* Calls of removeFavorite over one behaviour.
MaxRemoves == 3

\* ------------------------------------------------------------- environment

\* The isolates that can serve a request at the same time; a request goes to
\* the first free one.
Handlers == {1, 2}

\* Hours that pass in one step of the clock.
Elapse == {12}

\* JavaScript's undefined, and what JSON.stringify leaves of it: nothing.
Undefined == "undefined"
Absent == "absent"

\* The request bodies { dishName, apiSource } the function is sent: dishName
\* "", " ", "p" or " P"; apiSource missing (Undefined), one of the three
\* sources, or a name the function does not know.
RequestBodies ==
    { [dishName |-> <<>>, apiSource |-> "themealdb"],
      [dishName |-> <<" ">>, apiSource |-> "themealdb"],
      [dishName |-> <<"p">>, apiSource |-> "themealdb"],
      [dishName |-> <<" ", "P">>, apiSource |-> "themealdb"],
      [dishName |-> <<"p">>, apiSource |-> Undefined],
      [dishName |-> <<"p">>, apiSource |-> "spoonacular"],
      [dishName |-> <<"p">>, apiSource |-> "edamam"],
      [dishName |-> <<"p">>, apiSource |-> "usda"] }

\* What an adapter builds from an upstream answer: id and title are whatever
\* the upstream record held, undefined when it held neither.
Payloads ==
    { [id |-> "r1", title |-> "A"],
      [id |-> "r1", title |-> "B"],
      [id |-> Undefined, title |-> Undefined] }

\* How one upstream HTTP call ends: fetch() or json() throws, the answer
\* lists no candidate, the answer lists at least one.
FetchOutcomes == {"throws", "empty", "found"}

\* searchData.results when it is not empty: the candidates' ids, in the
\* order the upstream listed them.
Candidates == { <<"r1">>, <<"r2", "r1">> }

\* ------------------------------------------------------------------ state

VARIABLES
    now,           \* the clock, in hours
    recipe_cache,  \* rows of public.recipe_cache
    recipes,       \* rows of public.recipes
    pc,            \* per handler: where the invocation stands
    req,           \* per handler: the request body
    local,         \* per handler: cacheKey, the lookup's timestamp, apiData, expiresAt,
                   \*   and inside fetchFromSpoonacular: results, the detail call's id
    resp,          \* per handler: the Response returned, NoResponse before
    io,            \* per handler: the calls the invocation has issued, in order
    nreq,          \* invocations so far
    last,          \* the handler of the latest request
    cold,          \* per handler: no row for its key when the request arrived
    meal,          \* fetchFromTheMealDB: data.meals[0], slot -> ingredient and measure
    scanIdx,       \* fetchFromTheMealDB: i
    ingredients,   \* fetchFromTheMealDB: the array being built
    dishInput,     \* RecipeIngredients: dishName, the text of the input
    isLoading,     \* RecipeIngredients: isLoading
    recipe,        \* RecipeIngredients: the lookup whose recipe is shown, 0 for null
    lookups,       \* RecipeIngredients: the calls of fetch-recipe in flight
    nlookup,       \* RecipeIngredients: lookups started so far
    succeeded,     \* RecipeIngredients: the lookups that returned a recipe
    favorites,     \* UserFavorites: favorites, the ids listed
    favLoading,    \* UserFavorites: isLoading
    user_favorites,\* rows of public.user_favorites (ids)
    removing,      \* UserFavorites: the calls of removeFavorite in flight
    nremove,       \* UserFavorites: calls of removeFavorite so far
    removed        \* UserFavorites: the ids whose removeFavorite succeeded

handlerVars == <<now, recipe_cache, recipes, pc, req, local, resp, io, nreq, last, cold>>

scanVars == <<meal, scanIdx, ingredients>>

uiVars == <<dishInput, isLoading, recipe, lookups, nlookup, succeeded>>

favVars == <<favorites, favLoading, user_favorites, removing, nremove, removed>>

clientVars == <<scanVars, uiVars, favVars>>

vars == <<handlerVars, scanVars, uiVars, favVars>>

NoRequest == [dishName |-> <<>>, apiSource |-> Undefined]
\* `let apiData;` before any adapter has returned.
NoData == [id |-> "unset", title |-> "unset"]
NoLocal ==
    [cacheKey |-> <<>>, at |-> 0, apiData |-> NoData, expiresAt |-> 0,
     results |-> <<>>, detailId |-> Absent]
NoResponse ==
    [status |-> 0, success |-> FALSE, data |-> Absent, source |-> Absent,
     error |-> Absent]

\* ------------------------------------------------------- string functions

\* String.prototype.toLowerCase, one character.
LowerChar(c) == IF c = "P" THEN "p" ELSE c

toLowerCase(s) == [i \in 1..Len(s) |-> LowerChar(s[i])]

RECURSIVE trimStart(_)
trimStart(s) == IF s # <<>> /\ Head(s) = " " THEN trimStart(Tail(s)) ELSE s

RECURSIVE trimEnd(_)
trimEnd(s) ==
    IF s # <<>> /\ s[Len(s)] = " " THEN trimEnd(SubSeq(s, 1, Len(s) - 1)) ELSE s

\* String.prototype.trim
trim(s) == trimEnd(trimStart(s))

\* ------------------------------------------------------------------ input

\* `!dishName`: a string is falsy only when it is empty.
Falsy(dishName) == dishName = <<>>

\* const cacheKey = dishName.toLowerCase().trim()
CacheKeyOf(dishName) == trim(toLowerCase(dishName))

\* const { dishName, apiSource = 'spoonacular' } = await req.json()
SourceOf(apiSource) == IF apiSource = Undefined THEN "spoonacular" ELSE apiSource

\* A dispatch whose last branch takes every other name.
RecognizedAny(src) == TRUE

\* The three branches of the source dispatch.
Recognized(src) == src \in {"spoonacular", "edamam", "themealdb"}

\* JSON.stringify of a normalized recipe: undefined properties are left out.
ToJson(d) ==
    [id |-> IF d.id = Undefined THEN Absent ELSE d.id,
     title |-> IF d.title = Undefined THEN Absent ELSE d.title]

\* ------------------------------------------------------------- responses

\* Lines 40-47.
CacheEnvelope(data) ==
    [status |-> 200, success |-> TRUE, data |-> ToJson(data), source |-> "cache",
     error |-> Absent]

\* Lines 81-88.
ApiEnvelope(data) ==
    [status |-> 200, success |-> TRUE, data |-> ToJson(data), source |-> "api",
     error |-> Absent]

\* The catch block without its `status: 500`.
ErrorEnvelopeOk(message) ==
    [status |-> 200, success |-> FALSE, data |-> Absent, source |-> Absent,
     error |-> message]

\* Lines 90-101.
ErrorEnvelope(message) ==
    [status |-> 500, success |-> FALSE, data |-> Absent, source |-> Absent,
     error |-> message]

\* ----------------------------------------------------------------- tables

\* gen_random_uuid(): an id no row of the table has.
NewId(rows) == Cardinality(rows) + 1

\* The query with .gte in place of .gt.
CacheSelectGte(rows, key, src, at) ==
    { r \in rows : r.search_query = key /\ r.api_source = src /\ r.expires_at >= at }

\* The query without .eq('api_source', apiSource).
CacheSelectAnySource(rows, key, src, at) ==
    { r \in rows : r.search_query = key /\ r.expires_at > at }

\* .eq('search_query', cacheKey).eq('api_source', apiSource)
\* .gt('expires_at', new Date().toISOString())
CacheSelect(rows, key, src, at) ==
    { r \in rows : r.search_query = key /\ r.api_source = src /\ r.expires_at > at }

\* .single(): data is the row when exactly one matches, null otherwise.
SingleFound(rows) == Cardinality(rows) = 1
Single(rows) == CHOOSE r \in rows : TRUE

\* The table without its UNIQUE constraint.
CacheConflictNever(rows, key, src) == FALSE

\* UNIQUE(search_query, api_source)
CacheConflict(rows, key, src) ==
    \E r \in rows : r.search_query = key /\ r.api_source = src

\* A handler that never writes the cache.
CacheUpsertDropped(rows, key, src, data, expiresAt) == rows

\* recipe_cache.upsert({search_query, api_source, response_data, expires_at}):
\* no onConflict is given, so the conflict target is the primary key id, and
\* the row carries no id: it is inserted under a new id, and the insert is
\* refused (an error object, nothing thrown) when the UNIQUE pair exists.
CacheUpsert(rows, key, src, data, expiresAt) ==
    IF CacheConflict(rows, key, src)
    THEN rows
    ELSE rows \cup { [id |-> NewId(rows), search_query |-> key, api_source |-> src,
                      response_data |-> ToJson(data), expires_at |-> expiresAt] }

\* recipeData.id.toString() throws a TypeError when the recipe has no id.
StoreThrows(data) == data.id = Undefined

\* UNIQUE(external_id, api_source), title TEXT NOT NULL
RecipeRefused(rows, data, src) ==
    \/ ToJson(data).title = Absent
    \/ \E r \in rows : r.external_id = data.id /\ r.api_source = src

\* recipes.upsert({external_id, api_source, title, ...}), as CacheUpsert.
RecipeUpsert(rows, data, src) ==
    IF RecipeRefused(rows, data, src)
    THEN rows
    ELSE rows \cup { [id |-> NewId(rows), external_id |-> data.id, api_source |-> src,
                      title |-> data.title] }

\* ---------------------------------------------------------------- handler

HandlerInit ==
    /\ now = 0
    /\ recipe_cache = {}
    /\ recipes = {}
    /\ pc = [p \in Handlers |-> "idle"]
    /\ req = [p \in Handlers |-> NoRequest]
    /\ local = [p \in Handlers |-> NoLocal]
    /\ resp = [p \in Handlers |-> NoResponse]
    /\ io = [p \in Handlers |-> <<>>]
    /\ nreq = 0
    /\ last = 0
    /\ cold = [p \in Handlers |-> FALSE]

\* The catch block: the thrown error's message in a 500 response.
Throw(p, message) ==
    /\ resp' = [resp EXCEPT ![p] = ErrorEnvelope(message)]
    /\ pc' = [pc EXCEPT ![p] = "done"]

\* storeRecipe called without await: the handler has answered already.
ResponseNotAwaited(data) == ApiEnvelope(data)

\* What the handler has returned while storeRecipe's upsert is in flight:
\* nothing, the call is awaited (line 78).
ResponseWhileStoring(data) == NoResponse

\* storeRecipe without its try/catch: the TypeError reaches the handler's catch.
ResponseStoreThrowEscapes(data) ==
    ErrorEnvelope("Cannot read properties of undefined")

\* Lines 242-245 and 81-88: storeRecipe's catch logs the error and returns,
\* and the handler answers as if the recipe had been stored.
ResponseAfterStoreThrows(data) == ApiEnvelope(data)

\* Lines 20-36: the body is read, dishName checked, the cache query sent.
Receive(p, dishName, apiSource) ==
    /\ [dishName |-> dishName, apiSource |-> apiSource] \in RequestBodies
    /\ pc[p] = "idle"
    /\ \A q \in Handlers : q < p => pc[q] # "idle"
    /\ nreq < MaxRequests
    /\ nreq' = nreq + 1
    /\ last' = p
    /\ req' = [req EXCEPT ![p] = [dishName |-> dishName, apiSource |-> SourceOf(apiSource)]]
    /\ cold' = [cold EXCEPT ![p] =
                   ~CacheConflict(recipe_cache, CacheKeyOf(dishName), SourceOf(apiSource))]
    /\ IF Falsy(dishName)
       THEN /\ Throw(p, "Dish name is required")
            /\ UNCHANGED <<local, io>>
       ELSE /\ local' = [local EXCEPT ![p] =
                            [NoLocal EXCEPT !.cacheKey = CacheKeyOf(dishName), !.at = now]]
            /\ io' = [io EXCEPT ![p] = <<"recipe_cache.select">>]
            /\ pc' = [pc EXCEPT ![p] = "lookup"]
            /\ UNCHANGED resp
    /\ UNCHANGED <<now, recipe_cache, recipes>>

\* Lines 30-61: the cache query answers; a row is returned as it is, no row
\* sends the request to the adapter of its source, up to the adapter's first
\* fetch.  hasKey: Deno.env holds the credentials of the source.
Lookup(p, hasKey) ==
    /\ pc[p] = "lookup"
    /\ LET src == req[p].apiSource
           matching == CacheSelect(recipe_cache, local[p].cacheKey, src, local[p].at)
       IN  IF SingleFound(matching)
           THEN /\ resp' = [resp EXCEPT ![p] = CacheEnvelope(Single(matching).response_data)]
                /\ pc' = [pc EXCEPT ![p] = "done"]
                /\ UNCHANGED io
           ELSE IF ~Recognized(src)
           THEN /\ Throw(p, "Invalid API source")
                /\ UNCHANGED io
           ELSE IF src = "spoonacular" /\ ~hasKey
           THEN /\ Throw(p, "Spoonacular API key not configured")
                /\ UNCHANGED io
           ELSE IF src = "edamam" /\ ~hasKey
           THEN /\ Throw(p, "Edamam API credentials not configured")
                /\ UNCHANGED io
           ELSE /\ io' = [io EXCEPT ![p] = Append(@, src)]
                /\ pc' = [pc EXCEPT ![p] = IF src = "spoonacular" THEN "search" ELSE "fetch"]
                /\ UNCHANGED resp
    /\ UNCHANGED <<now, recipe_cache, recipes, req, local, nreq, last, cold>>

\* Lines 63-75: the adapter has returned apiData; expiresAt is computed and
\* the cache upsert sent.
AdapterReturned(p, data) ==
    /\ local' = [local EXCEPT ![p].apiData = data, ![p].expiresAt = now + TtlHours,
                              ![p].results = <<>>, ![p].detailId = Absent]
    /\ io' = [io EXCEPT ![p] = Append(@, "recipe_cache.upsert")]
    /\ pc' = [pc EXCEPT ![p] = "cachePut"]
    /\ UNCHANGED resp

\* A lookup of the last result.
LastCandidate(results) == results[Len(results)]

\* const recipe = searchData.results[0]
FirstCandidate(results) == results[1]

\* Lines 114-125: complexSearch answers; the information call is sent for
\* the id of its first result.
SearchReturns(p, outcome, results) ==
    /\ pc[p] = "search"
    /\ CASE outcome = "throws" -> Throw(p, "fetch failed") /\ UNCHANGED <<local, io>>
         [] outcome = "empty" -> Throw(p, "No recipes found") /\ UNCHANGED <<local, io>>
         [] outcome = "found" ->
               /\ local' = [local EXCEPT ![p].results = results,
                                         ![p].detailId = FirstCandidate(results)]
               /\ io' = [io EXCEPT ![p] = Append(@, "spoonacular.information")]
               /\ pc' = [pc EXCEPT ![p] = "detail"]
               /\ UNCHANGED resp
    /\ UNCHANGED <<now, recipe_cache, recipes, req, nreq, last, cold>>

\* Lines 125-145: the information call answers, and fetchFromSpoonacular is
\* left with its locals.
DetailReturns(p, outcome, data) ==
    /\ pc[p] = "detail"
    /\ IF outcome = "throws"
       THEN /\ Throw(p, "fetch failed")
            /\ local' = [local EXCEPT ![p].results = <<>>, ![p].detailId = Absent]
            /\ UNCHANGED io
       ELSE AdapterReturned(p, data)
    /\ UNCHANGED <<now, recipe_cache, recipes, req, nreq, last, cold>>

\* Lines 158-181 and 187-224: the one search of Edamam or TheMealDB answers.
FetchReturns(p, outcome, data) ==
    /\ pc[p] = "fetch"
    /\ CASE outcome = "throws" -> Throw(p, "fetch failed") /\ UNCHANGED <<local, io>>
         [] outcome = "empty" -> Throw(p, "No recipes found") /\ UNCHANGED <<local, io>>
         [] outcome = "found" -> AdapterReturned(p, data)
    /\ UNCHANGED <<now, recipe_cache, recipes, req, nreq, last, cold>>

\* Lines 68-78 and 227-241: the cache upsert is applied (its result is not
\* read), then storeRecipe builds its row and sends the recipes upsert; a
\* recipe with no id throws inside storeRecipe's try and the handler answers.
CachePutReturns(p) ==
    /\ pc[p] = "cachePut"
    /\ recipe_cache' = CacheUpsert(recipe_cache, local[p].cacheKey, req[p].apiSource,
                                   local[p].apiData, local[p].expiresAt)
    /\ IF StoreThrows(local[p].apiData)
       THEN /\ resp' = [resp EXCEPT ![p] = ResponseAfterStoreThrows(local[p].apiData)]
            /\ pc' = [pc EXCEPT ![p] = "done"]
            /\ UNCHANGED io
       ELSE /\ resp' = [resp EXCEPT ![p] = ResponseWhileStoring(local[p].apiData)]
            /\ pc' = [pc EXCEPT ![p] = "storeWait"]
            /\ io' = [io EXCEPT ![p] = Append(@, "recipes.upsert")]
    /\ UNCHANGED <<now, recipes, req, local, nreq, last, cold>>

\* Lines 229-245 and 81-88: the recipes upsert is applied (its result is not
\* read) and the handler answers.
StoreReturns(p) ==
    /\ pc[p] = "storeWait"
    /\ recipes' = RecipeUpsert(recipes, local[p].apiData, req[p].apiSource)
    /\ resp' = [resp EXCEPT ![p] = ApiEnvelope(local[p].apiData)]
    /\ pc' = [pc EXCEPT ![p] = "done"]
    /\ UNCHANGED <<now, recipe_cache, req, local, io, nreq, last, cold>>

\* The invocation is over; the isolate takes the next request.
Finish(p) ==
    /\ pc[p] = "done"
    /\ pc' = [pc EXCEPT ![p] = "idle"]
    /\ req' = [req EXCEPT ![p] = NoRequest]
    /\ local' = [local EXCEPT ![p] = NoLocal]
    /\ resp' = [resp EXCEPT ![p] = NoResponse]
    /\ io' = [io EXCEPT ![p] = <<>>]
    /\ cold' = [cold EXCEPT ![p] = FALSE]
    /\ UNCHANGED <<now, recipe_cache, recipes, nreq, last>>

\* No invocation is between its request and its response.
Quiet == \A q \in Handlers : pc[q] \in {"idle", "done"}

\* Time passes.  One step of the clock is hours and an invocation is over
\* within seconds (the platform ends it otherwise), so the clock does not
\* step inside one.
Tick ==
    /\ Quiet
    /\ \E d \in Elapse : now + d <= MaxTime /\ now' = now + d
    /\ UNCHANGED <<recipe_cache, recipes, pc, req, local, resp, io, nreq, last, cold>>

Step(p) ==
    \/ \E hasKey \in BOOLEAN : Lookup(p, hasKey)
    \/ \E o \in FetchOutcomes, c \in Candidates : SearchReturns(p, o, c)
    \/ \E o \in FetchOutcomes, d \in Payloads : DetailReturns(p, o, d)
    \/ \E o \in FetchOutcomes, d \in Payloads : FetchReturns(p, o, d)
    \/ CachePutReturns(p)
    \/ StoreReturns(p)
    \/ Finish(p)

\* ---------------------------------------------------- RecipeIngredients

\* What the user types into the dish input.
DishInputs == { <<>>, <<" ">>, <<"p">> }

\* useState(''), useState(null), useState(false)
UiMounted ==
    /\ dishInput = <<>>
    /\ isLoading = FALSE
    /\ recipe = 0
    /\ lookups = {}
    /\ nlookup = 0
    /\ succeeded = {}

\* onChange={(e) => setDishName(e.target.value)}
TypeDish(text) ==
    /\ text # dishInput
    /\ dishInput' = text
    /\ UNCHANGED <<isLoading, recipe, lookups, nlookup, succeeded>>

\* Lines 36-55: getIngredients up to its await.  A blank dish name shows a
\* toast and returns.
getIngredients ==
    IF trim(dishInput) = <<>>
    THEN UNCHANGED <<isLoading, lookups, nlookup>>
    ELSE /\ nlookup < MaxLookups
         /\ isLoading' = TRUE
         /\ nlookup' = nlookup + 1
         /\ lookups' = lookups \cup {nlookup + 1}

\* <Button onClick={getIngredients} disabled={isLoading}>
ClickGetRecipe ==
    /\ ~isLoading
    /\ getIngredients
    /\ UNCHANGED <<dishInput, recipe, succeeded>>

\* onKeyPress={(e) => e.key === 'Enter' && getIngredients()}
PressEnter ==
    /\ getIngredients
    /\ UNCHANGED <<dishInput, recipe, succeeded>>

\* Lines 56-79: the call of lookup n returns; a recipe is shown, an error or
\* success=false is a toast; finally isLoading is false.
LookupReturns(n, ok) ==
    /\ n \in lookups
    /\ lookups' = lookups \ {n}
    /\ recipe' = IF ok THEN n ELSE recipe
    /\ succeeded' = IF ok THEN succeeded \cup {n} ELSE succeeded
    /\ isLoading' = FALSE
    /\ UNCHANGED <<dishInput, nlookup>>

\* -------------------------------------------------------- UserFavorites

\* The ids of the user's favorites.
FavoriteIds == {1, 2, 3}

RECURSIVE Listing(_)
\* .order('created_at', { ascending: false }): the rows, latest first.
Listing(rows) ==
    IF rows = {} THEN <<>>
    ELSE LET m == CHOOSE x \in rows : \A y \in rows : y <= x
         IN  <<m>> \o Listing(rows \ {m})

\* favs.filter(fav => fav.id !== favoriteId)
Without(favs, favoriteId) == SelectSeq(favs, LAMBDA f : f # favoriteId)

\* useState([]), useState(true), and fetchFavorites in flight.
FavMounted ==
    /\ favorites = <<>>
    /\ favLoading = TRUE
    /\ removing = {}
    /\ nremove = 0
    /\ removed = {}

\* Lines 30-60: the select returns: its rows are listed, or a toast.
FetchFavoritesReturns(ok) ==
    /\ favLoading
    /\ favorites' = IF ok THEN Listing(user_favorites) ELSE favorites
    /\ favLoading' = FALSE
    /\ UNCHANGED <<user_favorites, removing, nremove, removed>>

\* `favorites` inside removeFavorite: the array of the render whose Remove
\* button was clicked.
ClosureFavorites(call) == call.favorites

\* onClick={() => removeFavorite(favorite.id)}, up to the await: the delete
\* is sent.  The button is there for every favorite listed.
ClickRemove(id) ==
    /\ ~favLoading
    /\ \E i \in 1..Len(favorites) : favorites[i] = id
    /\ nremove < MaxRemoves
    /\ nremove' = nremove + 1
    /\ removing' = removing \cup {[id |-> id, favorites |-> favorites]}
    /\ UNCHANGED <<favorites, favLoading, user_favorites, removed>>

\* Lines 68-84: the delete returns.  Without an error the row is gone and
\* the list is set; with one the row is kept and a toast is shown.
RemoveReturns(call, ok) ==
    /\ call \in removing
    /\ removing' = removing \ {call}
    /\ IF ok
       THEN /\ user_favorites' = user_favorites \ {call.id}
            /\ favorites' = Without(ClosureFavorites(call), call.id)
            /\ removed' = removed \cup {call.id}
       ELSE UNCHANGED <<user_favorites, favorites, removed>>
    /\ UNCHANGED <<favLoading, nremove>>

\* ------------------------------------------ fetchFromTheMealDB: the scan

\* A JavaScript value that is null (or undefined) or a string.
Null == [isNull |-> TRUE, chars |-> <<>>]
Str(chars) == [isNull |-> FALSE, chars |-> chars]

\* `v && ...`, `v ? ... : ...`, `v || ''`: null and "" are falsy.
Truthy(v) == ~v.isNull /\ v.chars # <<>>

\* The slots of a meal that hold something; TheMealDB leaves the rest null.
FilledSlots == {1, 2, 5, MaxIngredients}

\* strIngredient<i>: null, "", " ", "p", " P ".
IngredientValues == { Null, Str(<<>>), Str(<<" ">>), Str(<<"p">>), Str(<<" ", "P", " ">>) }

\* strMeasure<i>: null or "p ".
MeasureValues == { Null, Str(<<"p", " ">>) }

\* The slots whose measure is not null.
MeasuredSlots == {1, 5}

NoMeal == [i \in 1..MaxIngredients |-> [ingredient |-> Null, measure |-> Null]]

Meals ==
    { [i \in 1..MaxIngredients |->
          [ingredient |-> IF i \in FilledSlots THEN f[i] ELSE Null,
           measure |-> IF i \in MeasuredSlots THEN g[i] ELSE Null]] :
      f \in [FilledSlots -> IngredientValues], g \in [MeasuredSlots -> MeasureValues] }

\* if (ingredient && ingredient.trim())
Listed(slot) == Truthy(slot.ingredient) /\ trim(slot.ingredient.chars) # <<>>

\* Lines 203-208: the object pushed for a slot.
IngredientOf(slot) ==
    [name |-> trim(slot.ingredient.chars),
     amount |-> IF Truthy(slot.measure) THEN trim(slot.measure.chars) ELSE <<>>,
     unit |-> <<>>,
     originalString |->
        trim((IF Truthy(slot.measure) THEN slot.measure.chars ELSE <<>>)
             \o <<" ">> \o slot.ingredient.chars)]

\* A loop that breaks at the first slot it does not list.
NextIndexBreak(i, listed) == IF listed THEN i + 1 ELSE MaxIngredients + 1

\* i++, whether or not the slot was listed.
NextIndex(i, listed) == i + 1

ScanOff ==
    /\ meal = NoMeal
    /\ scanIdx = 0
    /\ ingredients = <<>>

\* The two components as they are mounted, left alone; no favorites.
ClientIdle ==
    /\ UiMounted
    /\ FavMounted
    /\ user_favorites = {}

\* Lines 194-197: meal = data.meals[0], ingredients = [], i = 1.
ScanInit ==
    /\ HandlerInit
    /\ meal \in Meals
    /\ scanIdx = 1
    /\ ingredients = <<>>
    /\ ClientIdle

\* Lines 198-210: one turn of the loop.
ScanStep ==
    /\ scanIdx \in 1..MaxIngredients
    /\ LET slot == meal[scanIdx]
       IN  /\ ingredients' = IF Listed(slot)
                             THEN Append(ingredients, IngredientOf(slot))
                             ELSE ingredients
           /\ scanIdx' = NextIndex(scanIdx, Listed(slot))
    /\ UNCHANGED <<meal, handlerVars, uiVars, favVars>>

ScanNext == ScanStep

ScanSpec == ScanInit /\ [][ScanNext]_vars

\* ------------------------------------------------------- specifications

Init ==
    /\ HandlerInit
    /\ ScanOff
    /\ ClientIdle

Next ==
    \/ \E p \in Handlers, b \in RequestBodies :
          Receive(p, b.dishName, b.apiSource) /\ UNCHANGED clientVars
    \/ \E p \in Handlers : Step(p) /\ UNCHANGED clientVars
    \/ Tick /\ UNCHANGED clientVars

\* Requests arrive one after the other, each after the response to the last.
NextSeq ==
    \/ \E p \in Handlers, b \in RequestBodies :
          Quiet /\ Receive(p, b.dishName, b.apiSource) /\ UNCHANGED clientVars
    \/ \E p \in Handlers : Step(p) /\ UNCHANGED clientVars
    \/ Tick /\ UNCHANGED clientVars

Spec == Init /\ [][Next]_vars

SeqSpec == Init /\ [][NextSeq]_vars

\* A row of recipe_cache that has expired: written by a request for "p" on
\* themealdb 24 hours before the clock's origin.
ExpiredRow ==
    [id |-> 1, search_query |-> <<"p">>, api_source |-> "themealdb",
     response_data |-> [id |-> "r1", title |-> "A"], expires_at |-> 0]

\* The recipe that request stored.
StoredRow == [id |-> 1, external_id |-> "r1", api_source |-> "themealdb", title |-> "A"]

\* The function a day after it served that request.
AgedInit ==
    /\ now = 0
    /\ recipe_cache = {ExpiredRow}
    /\ recipes = {StoredRow}
    /\ pc = [p \in Handlers |-> "idle"]
    /\ req = [p \in Handlers |-> NoRequest]
    /\ local = [p \in Handlers |-> NoLocal]
    /\ resp = [p \in Handlers |-> NoResponse]
    /\ io = [p \in Handlers |-> <<>>]
    /\ nreq = 0
    /\ last = 0
    /\ cold = [p \in Handlers |-> FALSE]
    /\ ScanOff
    /\ ClientIdle

AgedSpec == AgedInit /\ [][NextSeq]_vars

\* The search page alone.
UiInit ==
    /\ HandlerInit
    /\ ScanOff
    /\ UiMounted
    /\ FavMounted
    /\ user_favorites = {}

UiNext ==
    \/ \E text \in DishInputs : TypeDish(text) /\ UNCHANGED <<handlerVars, scanVars, favVars>>
    \/ ClickGetRecipe /\ UNCHANGED <<handlerVars, scanVars, favVars>>
    \/ PressEnter /\ UNCHANGED <<handlerVars, scanVars, favVars>>
    \/ \E n \in 1..MaxLookups, ok \in BOOLEAN :
          LookupReturns(n, ok) /\ UNCHANGED <<handlerVars, scanVars, favVars>>

UiSpec == UiInit /\ [][UiNext]_vars

\* The favorites page alone, for a user with three favorites.
FavInit ==
    /\ HandlerInit
    /\ ScanOff
    /\ UiMounted
    /\ FavMounted
    /\ user_favorites = FavoriteIds

FavNext ==
    \/ \E ok \in BOOLEAN :
          FetchFavoritesReturns(ok) /\ UNCHANGED <<handlerVars, scanVars, uiVars>>
    \/ \E id \in FavoriteIds : ClickRemove(id) /\ UNCHANGED <<handlerVars, scanVars, uiVars>>
    \/ \E call \in removing, ok \in BOOLEAN :
          RemoveReturns(call, ok) /\ UNCHANGED <<handlerVars, scanVars, uiVars>>

FavSpec == FavInit /\ [][FavNext]_vars

\* ----------------------------------------------------------------- claims

\* The invocation of p has answered.
Done(p) == pc[p] = "done"

\* The adapter of p's invocation has returned a recipe.
AdapterSucceeded(p) == local[p].apiData # NoData

\* The row of recipe_cache for the key of p's request, as a set.
RowsOf(p) ==
    { r \in recipe_cache :
        r.search_query = local[p].cacheKey /\ r.api_source = req[p].apiSource }

\* The calls that write a table.
WriteCalls == {"recipe_cache.upsert", "recipes.upsert"}

Issued(p) == { io[p][i] : i \in 1..Len(io[p]) }

\* The messages an adapter throws.
AdapterErrors ==
    { "Spoonacular API key not configured", "Edamam API credentials not configured",
      "No recipes found", "fetch failed" }

\* C1: with requests served one after the other, a request that found no
\* row for its key and whose adapter succeeded is answered success/api, and
\* an identical request received after that answer and less than 24 hours
\* after the first is answered success/cache with the same data.
C1_ColdThenCached ==
    \A q \in Handlers : \A p \in Handlers \ {q} :
        ( /\ Done(q) /\ cold[q] /\ AdapterSucceeded(q)
          /\ ~Falsy(req[q].dishName) /\ Recognized(req[q].apiSource) )
        => /\ resp[q].status = 200 /\ resp[q].success /\ resp[q].source = "api"
           /\ ( /\ Done(p) /\ last = p /\ req[p] = req[q]
                /\ local[p].at < local[q].at + TtlHours )
              => /\ resp[p].status = 200 /\ resp[p].success
                 /\ resp[p].source = "cache"
                 /\ resp[p].data = resp[q].data

C1_Witness ==
    \E q \in Handlers : \E p \in Handlers \ {q} :
        /\ Done(q) /\ cold[q] /\ AdapterSucceeded(q) /\ resp[q].source = "api"
        /\ Done(p) /\ last = p /\ req[p] = req[q]
        /\ local[p].at > local[q].at /\ local[p].at < local[q].at + TtlHours
        /\ resp[p].source = "cache" /\ resp[p].data = resp[q].data

\* C2: a request whose key has a row with expires_at at or before the time
\* of its lookup is not answered from the cache: on a source the function
\* knows it goes to the adapter, and when the adapter succeeds the answer is
\* success/api.
C2_ExpiredIsMiss ==
    \A p \in Handlers :
        ( /\ pc[p] \notin {"idle", "lookup"} /\ ~Falsy(req[p].dishName)
          /\ \E r \in RowsOf(p) : r.expires_at <= local[p].at )
        => /\ Done(p) => resp[p].source # "cache"
           /\ Recognized(req[p].apiSource)
                 => \/ req[p].apiSource \in Issued(p)
                    \/ Done(p) /\ resp[p].error \in AdapterErrors
           /\ (Done(p) /\ AdapterSucceeded(p))
                 => resp[p].success /\ resp[p].source = "api"

C2_Witness ==
    \E p \in Handlers :
        /\ Done(p) /\ AdapterSucceeded(p)
        /\ \E r \in RowsOf(p) : r.expires_at = local[p].at
        /\ req[p].apiSource \in Issued(p)
        /\ resp[p].success /\ resp[p].source = "api"

\* C3: once the cache upsert of a miss whose adapter succeeded has returned,
\* the row for the key holds the new payload and expires 24 hours after the
\* write.
C3_MissRefreshesCache ==
    \A p \in Handlers :
        (pc[p] \in {"storeWait", "done"} /\ AdapterSucceeded(p))
        => \E r \in RowsOf(p) :
              /\ r.response_data = ToJson(local[p].apiData)
              /\ r.expires_at = local[p].expiresAt

\* C4: a request whose dishName is empty after trimming is answered with a
\* failure and issues no call at all: no cache read, no upstream call.
C4_BlankDishNameRejected ==
    \A p \in Handlers :
        (pc[p] # "idle" /\ trim(req[p].dishName) = <<>>)
        => /\ io[p] = <<>>
           /\ Done(p) /\ ~resp[p].success

\* C5: a request with a non-empty dishName and a source the function does
\* not know issues nothing but the cache read, is answered with a failure,
\* and neither table ever holds a row of that source.
C5_UnknownSourceFails ==
    \A p \in Handlers :
        (pc[p] # "idle" /\ ~Falsy(req[p].dishName)
            /\ req[p].apiSource \notin {"spoonacular", "edamam", "themealdb"})
        => /\ Issued(p) \subseteq {"recipe_cache.select"}
           /\ Done(p) => resp[p] = ErrorEnvelope("Invalid API source")
           /\ \A r \in recipe_cache \cup recipes : r.api_source # req[p].apiSource

C5_Witness ==
    \E p \in Handlers :
        /\ Done(p) /\ req[p].apiSource = "usda" /\ ~Falsy(req[p].dishName)
        /\ recipe_cache # {}
        /\ resp[p].status = 500 /\ ~resp[p].success

\* C6: a request that missed the cache on a source the function knows and
\* whose adapter returned no recipe is answered success=false, status 500,
\* with the adapter's message, and has issued no write to either table.
C6_AdapterFailureWritesNothing ==
    \A p \in Handlers :
        ( /\ Done(p) /\ ~Falsy(req[p].dishName) /\ Recognized(req[p].apiSource)
          /\ resp[p].source # "cache" /\ ~AdapterSucceeded(p) )
        => /\ resp[p].status = 500 /\ ~resp[p].success
           /\ resp[p].error \in AdapterErrors
           /\ Issued(p) \cap WriteCalls = {}

C6_Witness ==
    \E p \in Handlers :
        /\ Done(p) /\ req[p].apiSource = "spoonacular"
        /\ "spoonacular.information" \in Issued(p)
        /\ ~AdapterSucceeded(p)
        /\ resp[p] = ErrorEnvelope("fetch failed")

\* C7: a request whose adapter succeeded is answered success=true,
\* source="api", status 200, whether the recipes upsert stored the recipe,
\* was refused, or was never sent because the recipe has no id.
C7_StoreNeverChangesResponse ==
    \A p \in Handlers :
        (Done(p) /\ AdapterSucceeded(p))
        => /\ resp[p].status = 200 /\ resp[p].success /\ resp[p].source = "api"
           /\ resp[p].data = ToJson(local[p].apiData)

\* One invocation has stored a recipe and the upsert of another was refused.
C7_Witness ==
    \E p \in Handlers : \E q \in Handlers \ {p} :
        /\ Done(p) /\ AdapterSucceeded(p) /\ "recipes.upsert" \in Issued(p)
        /\ resp[p].success
        /\ Done(q) /\ AdapterSucceeded(q) /\ "recipes.upsert" \in Issued(q)
        /\ \E r \in recipes :
              /\ r.external_id = local[q].apiData.id
              /\ r.api_source = req[q].apiSource
              /\ r.title # local[q].apiData.title
        /\ resp[q].success

C9_HitTouchesNothing ==
    \A p \in Handlers :
        (Done(p) /\ resp[p].source = "cache")
        => /\ io[p] = <<"recipe_cache.select">>
           /\ ~AdapterSucceeded(p)
           /\ resp[p].status = 200 /\ resp[p].success
           /\ \E r \in RowsOf(p) :
                 r.response_data = resp[p].data /\ r.expires_at > local[p].at

C9_Witness ==
    \E p \in Handlers :
        /\ Done(p) /\ resp[p].source = "cache"
        /\ io[p] = <<"recipe_cache.select">>
        /\ Cardinality(recipe_cache) = 1 /\ recipes # {}

C11_LastWriterWins ==
    [][ \A p \in Handlers : \A q \in Handlers \ {p} :
          ( /\ pc[p] = "cachePut" /\ pc'[p] # "cachePut"
            /\ pc[q] \in {"storeWait", "done"} /\ AdapterSucceeded(q)
            /\ cold[p] /\ cold[q]
            /\ local[p].cacheKey = local[q].cacheKey
            /\ req[p].apiSource = req[q].apiSource )
          => \E r \in recipe_cache' :
                /\ r.search_query = local[p].cacheKey
                /\ r.api_source = req[p].apiSource
                /\ r.response_data = ToJson(local[p].apiData)
                /\ r.expires_at = local[p].expiresAt ]_vars

\* The slots of the meal, among the first n, whose ingredient is not blank.
ListedSlots(n) == { i \in 1..n : Listed(meal[i]) }

\* The place of slot i among the listed slots, counted in index order.
Rank(i) == Cardinality({ j \in ListedSlots(i) : j <= i })

\* C12: after the scan has passed n slots (all 20 at its end), the list holds
\* exactly one ingredient per slot among them that is non-empty after
\* trimming, in increasing slot order, each with the trimmed name of its
\* slot; a blank slot does not end the scan, which stops only after slot 20.
C12_ScanListsNonBlankSlots ==
    scanIdx >= 1 =>
        /\ scanIdx \in 1..(MaxIngredients + 1)
        /\ Len(ingredients) = Cardinality(ListedSlots(scanIdx - 1))
        /\ \A i \in ListedSlots(scanIdx - 1) :
              /\ ingredients[Rank(i)].name = trim(meal[i].ingredient.chars)
              /\ ingredients[Rank(i)].name # <<>>

\* The scan is over on a meal with ingredients in slots 1 and 5 and none in
\* slots 2 to 4: two ingredients.
C12_Witness ==
    /\ scanIdx = MaxIngredients + 1
    /\ ListedSlots(MaxIngredients) = {1, 5}
    /\ meal[2].ingredient # Null
    /\ Len(ingredients) = 2
    /\ ingredients[2].name = trim(meal[5].ingredient.chars)

\* C13: the cache key is (lowercase(trim(dishName)), source).  With requests
\* served one after the other, when a request has been answered from the
\* API, a later request for the same source whose dish name (not blank) has
\* the same key, received less than 24 hours after it, is answered from the
\* cache;
\* and a request answered from the cache was answered from a row of its own
\* key and its own source.
C13_SameKeySameEntry ==
    /\ \A q \in Handlers : \A p \in Handlers \ {q} :
          ( /\ Done(q) /\ resp[q].success /\ resp[q].source = "api"
            /\ trim(req[q].dishName) # <<>>
            /\ Done(p) /\ last = p
            /\ req[p].apiSource = req[q].apiSource
            /\ CacheKeyOf(req[p].dishName) = CacheKeyOf(req[q].dishName)
            /\ local[p].at < local[q].at + TtlHours )
          => resp[p].success /\ resp[p].source = "cache"
    /\ \A p \in Handlers :
          (Done(p) /\ resp[p].source = "cache")
          => \E r \in recipe_cache :
                /\ r.search_query = CacheKeyOf(req[p].dishName)
                /\ r.api_source = req[p].apiSource
                /\ r.response_data = resp[p].data

\* The places of io[p] that hold call c.
Calls(p, c) == { i \in 1..Len(io[p]) : io[p][i] = c }

\* The first call of each adapter.
AdapterCalls == {"spoonacular", "edamam", "themealdb"}

\* C14: an invocation issues the first call of at most one adapter, the one
\* of its source, at most once, and no call twice.  On spoonacular the
\* information call comes right after the search call, is in flight only
\* with a non-empty result list and for the id of the list's first element,
\* and an invocation that failed with "No recipes found" issued none.
C14_NoRetries ==
    \A p \in Handlers :
        /\ \A c \in Issued(p) : Cardinality(Calls(p, c)) = 1
        /\ Issued(p) \cap AdapterCalls \subseteq {req[p].apiSource}
        /\ \A i \in Calls(p, "spoonacular.information") :
              i > 1 /\ io[p][i - 1] = "spoonacular"
        /\ pc[p] = "detail"
              => /\ io[p][Len(io[p])] = "spoonacular.information"
                 /\ local[p].results # <<>>
                 /\ local[p].detailId = local[p].results[1]
        /\ (Done(p) /\ resp[p].error = "No recipes found")
              => /\ resp[p].status = 500 /\ ~resp[p].success
                 /\ Issued(p) = {"recipe_cache.select", req[p].apiSource}

\* One invocation is waiting for the information call of the first of two
\* candidates; the search of another returned none.
C14_Witness ==
    \E p \in Handlers : \E q \in Handlers \ {p} :
        /\ pc[p] = "detail" /\ local[p].results = <<"r2", "r1">>
        /\ local[p].detailId = "r2"
        /\ Done(q) /\ req[q].apiSource = "spoonacular"
        /\ resp[q].error = "No recipes found"
        /\ io[q] = <<"recipe_cache.select", "spoonacular">>

\* The lookup started last among those that returned a recipe, 0 if none.
LatestSucceeded ==
    IF succeeded = {} THEN 0 ELSE CHOOSE n \in succeeded : \A k \in succeeded : k <= n

\* C15: at most one lookup is in flight, isLoading is true exactly while one
\* is, and the recipe shown is that of the lookup started last among those
\* that succeeded.
C15_OneLookupInFlight ==
    /\ Cardinality(lookups) <= 1
    /\ isLoading <=> lookups # {}
    /\ recipe = LatestSucceeded

\* C16: an id whose removeFavorite has completed successfully is not listed.
C16_RemovedStaysRemoved ==
    \A id \in removed : \A i \in 1..Len(favorites) : favorites[i] # id

TypeOK ==
    /\ now \in 0..(MaxTime + 1)
    /\ pc \in [Handlers -> {"idle", "lookup", "search", "detail", "fetch",
                            "cachePut", "storeWait", "done"}]
    /\ nreq \in 0..(MaxRequests + 1)

====
